---- MODULE Spec2Model ----
(***************************************************************************)
(* A model of vit_jax/models_vit.py: the hybrid Vision Transformer whose   *)
(* encoder layers interleave MBConv blocks with self-attention.            *)
(*                                                                         *)
(* A tensor is modelled by what the module's own code decides: its shape,  *)
(* the labels of the positions along axis 1, and, for every index i along  *)
(* axis 0, the set dep[i] of input batch elements the values at index i    *)
(* have been computed from.  Every framework layer is modelled by its      *)
(* effect on these: the shape it returns, the errors it raises, the random *)
(* numbers it draws, the statistics it reads or writes, and the axes along *)
(* which it combines values.                                               *)
(***************************************************************************)
EXTENDS Integers, Sequences, FiniteSets, TLC

VARIABLES
  entry,    \* the callable that was invoked
  cfg,      \* the attributes of the invoked module (fixed at construction)
  train,    \* the train flag of the call
  mutable,  \* is_mutable_collection('batch_stats') for the call
  key,      \* the 'dropout' PRNG key the caller supplies for the call
  inputs,   \* the shape of the input tensor (or the arguments of a function)
  pc,       \* position inside the call
  lyr,      \* loop variable of Encoder.__call__
  x,        \* shape of the local x
  axis1,    \* labels of the positions along axis 1 of x
  dep,      \* dep[i]: input batch elements that x[i-1] is computed from
  err,      \* the exception that aborted the call, or NoError
  log,      \* named submodules evaluated so far, in order
  bn,       \* batch normalizations evaluated: <<site, use_running_average, writes>>
  draws,    \* random numbers drawn from the PRNG key so far
  adds,     \* residual adds attempted by MBConv: <<channels of x, channels of conv(x)>>
  posemb,   \* shape of the pos_embedding parameter used, <<>> when none
  pooled,   \* labels of the axis-1 positions that reach the head
  call,     \* 1 for the first call, 2 for the repeated call
  out1,     \* what the first call produced
  ret       \* return value of a plain function

vars == <<entry, cfg, train, mutable, key, inputs, pc, lyr, x, axis1, dep, err,
          log, bn, draws, adds, posemb, pooled, call, out1, ret>>

-----------------------------------------------------------------------------
(* Bounds of the model. *)

MaxBatch == 2
MaxSide == 3
MaxDim == 3
MaxLayers == 2
MaxRank == 4
MaxV == 24
MaxDivisor == 5

-----------------------------------------------------------------------------
(* Small helpers. *)

Max(a, b) == IF a >= b THEN a ELSE b

CeilDiv(a, b) == (a + b - 1) \div b

Last(s) == s[Len(s)]

SetLast(s, v) == [s EXCEPT ![Len(s)] = v]

RemoveAt(s, k) == [i \in 1..(Len(s) - 1) |-> IF i < k THEN s[i] ELSE s[i + 1]]

NoError == [kind |-> "none", msg |-> "", arg |-> <<>>]

Error(kind, msg, arg) == [kind |-> kind, msg |-> msg, arg |-> arg]

(* The state a chain of layers threads through: the tensor and the effects. *)
Tensor(shape, d) ==
  [shape |-> shape, dep |-> d, err |-> NoError, bn |-> {}, draws |-> 0, adds |-> {}]

Ok(t) == t.err.kind = "none"

Fail(t, kind, msg, arg) == [t EXCEPT !.err = Error(kind, msg, arg)]

Channels(t) == Last(t.shape)

-----------------------------------------------------------------------------
(* jax.numpy broadcasting of two shapes of the same rank. *)

Broadcastable(s, u) ==
  /\ Len(s) = Len(u)
  /\ \A i \in 1..Len(s) : s[i] = u[i] \/ s[i] = 1 \/ u[i] = 1

BroadcastShape(s, u) == [i \in 1..Len(s) |-> IF s[i] = 1 THEN u[i] ELSE s[i]]

(* The entry of d that index i of a broadcast axis 0 reads: the only one    *)
(* when the operand has length 1 there.                                     *)
BroadcastDep(d, i) == IF Len(d) = 1 THEN d[1] ELSE d[i]

(* a + b and a * b.  t is the operand computed last, which carries the      *)
(* effects of the chain.  Index i of axis 0 of the result is computed from  *)
(* what both operands hold at the index they are read at.                   *)
Elementwise(t, a, b) ==
  IF ~Ok(t) THEN t
  ELSE IF ~Broadcastable(a.shape, b.shape)
    THEN Fail(t, "TypeError", "incompatible shapes for broadcasting", <<a.shape, b.shape>>)
    ELSE [t EXCEPT !.shape = BroadcastShape(a.shape, b.shape),
                   !.dep = [i \in 1..BroadcastShape(a.shape, b.shape)[1] |->
                              BroadcastDep(a.dep, i) \cup BroadcastDep(b.dep, i)]]

-----------------------------------------------------------------------------
(* _make_divisible(v, divisor, min_value=None).  min_value is <<>> for None *)
(* and <<m>> for a given m.  int(v + divisor / 2) truncates v + divisor/2,  *)
(* which for v >= 0 is v + divisor \div 2; new_v < 0.9 * v is compared in   *)
(* tenths.                                                                  *)

(* _make_divisible without the correction of a round-down of more than 10%. *)
MakeDivisibleNoCorrection(v, divisor, min_value) ==
  Max(IF min_value = <<>> THEN divisor ELSE min_value[1],
      ((v + divisor \div 2) \div divisor) * divisor)

_make_divisible(v, divisor, min_value) ==
  LET min_v == IF min_value = <<>> THEN divisor ELSE min_value[1]
      new_v == Max(min_v, ((v + divisor \div 2) \div divisor) * divisor)
  IN IF 10 * new_v < 9 * v THEN new_v + divisor ELSE new_v

(* SELayer.__call__: the features of the reduction convolution. *)
SEFeatures(inp, reduction) == _make_divisible(inp \div reduction, 4, <<>>)

-----------------------------------------------------------------------------
(* Framework layers, by their effect on shape, dep and the call's effects.  *)

(* Output length of one spatial axis of a convolution or pooling window. *)
ConvOut(d, k, s, padding) ==
  IF padding = "SAME" THEN CeilDiv(d, s)
  ELSE IF d < k THEN 0 ELSE (d - k) \div s + 1

(* Input indices (1-based) that output index o of a spatial axis reads. *)
ConvWindow(d, k, s, padding, o) ==
  LET m == ConvOut(d, k, s, padding)
      total == IF padding = "SAME" THEN Max((m - 1) * s + k - d, 0) ELSE 0
      lo == (o - 1) * s + 1 - total \div 2
  IN {j \in 1..d : lo <= j /\ j <= lo + k - 1}

(* nn.Conv(features, kernel_size, strides, padding, feature_group_count).   *)
(* An input of rank len(kernel_size) + 1 is taken as ONE unbatched sample:  *)
(* its leading axes, axis 0 included, are the spatial axes the kernel       *)
(* slides over.  Only with rank len(kernel_size) + 2 or more is axis 0 a    *)
(* batch axis.                                                              *)
Conv(t, features, kernel, strides, padding, groups) ==
  LET rank == Len(t.shape)
      nsp == Len(kernel)
      nbatch == rank - nsp - 1
      out == [i \in 1..rank |->
                IF i = rank THEN features
                ELSE IF i <= nbatch THEN t.shape[i]
                ELSE ConvOut(t.shape[i], kernel[i - nbatch], strides[i - nbatch], padding)]
  IN IF ~Ok(t) THEN t
     ELSE IF nbatch < 0
       THEN Fail(t, "ValueError", "input rank too small for kernel", t.shape)
     ELSE IF Channels(t) % groups # 0 \/ features % groups # 0
       THEN Fail(t, "ValueError", "features not divisible by feature_group_count", t.shape)
     ELSE IF nbatch = 0
       THEN [t EXCEPT !.shape = out,
                      !.dep = [o \in 1..out[1] |->
                                 UNION {t.dep[j] : j \in
                                   ConvWindow(t.shape[1], kernel[1], strides[1], padding, o)}]]
       ELSE [t EXCEPT !.shape = out]

(* nn.BatchNorm(use_running_average): with the running average it reads the *)
(* stored statistics; without it, it reduces over every axis but the last   *)
(* one (axis 0 included) and writes the running statistics.  The caller is  *)
(* taken to bind the axis name 'devices' the reduction is synchronized on.  *)
BatchNorm(t, site, use_running_average) ==
  IF ~Ok(t) THEN t
  ELSE [t EXCEPT !.bn = @ \cup {<<site, use_running_average, ~use_running_average>>},
                 !.dep = IF use_running_average THEN @
                         ELSE [i \in DOMAIN @ |-> UNION {t.dep[j] : j \in DOMAIN t.dep}]]

(* nn.Dropout(rate)(x, deterministic): the identity when rate is 0 or when  *)
(* deterministic; otherwise it draws a mask from the 'dropout' key.         *)
Dropout(t, rate, deterministic) ==
  IF ~Ok(t) THEN t
  ELSE IF rate = 0 \/ deterministic THEN t
  ELSE [t EXCEPT !.draws = @ + 1]

(* nn.LayerNorm: normalizes along the last axis. *)
LayerNorm(t) == t

(* nn.Dense(features): a projection of the last axis. *)
Dense(t, features) ==
  IF ~Ok(t) THEN t ELSE [t EXCEPT !.shape = SetLast(@, features)]

(* nn.MultiHeadDotProductAttention(num_heads, dropout_rate, deterministic)  *)
(* on (x, x): attends along axis -2, within each index of the leading axes. *)
Attention(t, num_heads, dropout_rate, deterministic) ==
  IF ~Ok(t) THEN t
  ELSE IF Channels(t) % num_heads # 0
    THEN Fail(t, "AssertionError", "Memory dimension must be divisible by number of heads.", <<>>)
  ELSE IF dropout_rate > 0 /\ ~deterministic THEN [t EXCEPT !.draws = @ + 1]
  ELSE t

-----------------------------------------------------------------------------
(* The modules of models_vit.py.                                            *)

(* A batch normalization that always reads the running average. *)
UseRunningAverageAlways(is_mutable) == TRUE

(* The use_running_average both batch normalizations are given. *)
UseRunningAverage(is_mutable) == ~is_mutable

(* SELayer.__call__: return x * y. *)
SEScale(t, y) == Elementwise(y, t, y)

(* SELayer.__call__: x * sigmoid(conv(silu(conv(x)))), both convolutions    *)
(* 1x1 with nn.Conv's defaults (stride 1, 'SAME', one group).               *)
SELayer(t, inp, oup, reduction) ==
  SEScale(t, Conv(Conv(t, SEFeatures(inp, reduction), <<1, 1>>, <<1, 1>>, "SAME", 1),
                  oup, <<1, 1>>, <<1, 1>>, "SAME", 1))

(* ConvBlock.__call__: the dropout, applied only when its rate is not 0. *)
ConvBlockDropout(c, dropout, is_mutable) ==
  IF dropout # 0 THEN Dropout(c, dropout, ~is_mutable) ELSE c

(* ConvBlock.__call__: return x + shortcut, or x. *)
ConvBlockSkip(t, b, has_skip) ==
  IF has_skip THEN Elementwise(b, b, t) ELSE b

(* ConvBlock.__call__: convolution, dropout, batch normalization, silu. *)
ConvBlock(t, oup, kernel, stride, groups, dropout, has_skip, is_mutable) ==
  ConvBlockSkip(t,
    BatchNorm(ConvBlockDropout(Conv(t, oup, <<kernel, kernel>>, <<stride, stride>>,
                                    "SAME", groups),
                               dropout, is_mutable),
              "ConvBlock", UseRunningAverage(is_mutable)),
    has_skip)

(* DropBlock.__call__: its mutable branch names the module jax, which the   *)
(* file never imports.                                                      *)
DropBlock(t, dropblock_rate, is_mutable) ==
  IF ~Ok(t) THEN t
  ELSE IF is_mutable THEN Fail(t, "NameError", "name 'jax' is not defined", <<>>)
  ELSE t

(* MBConv.setup: hidden_dim = round(inp * expand_ratio), for whole ratios. *)
HiddenDim(inp, expand_ratio) == inp * expand_ratio

(* MBConv.setup: the residual condition, from the configured inp and oup. *)
Identity(stride, inp, oup) == stride = 1 /\ inp = oup

(* MBConv.setup: self.conv, the nn.Sequential. *)
MBConvPath(t, inp, oup, stride, expand_ratio, use_se, dropout, is_mutable) ==
  IF use_se
  THEN Conv(SELayer(ConvBlock(ConvBlock(t, HiddenDim(inp, expand_ratio), 1, 1, 1,
                                        dropout, FALSE, is_mutable),
                              HiddenDim(inp, expand_ratio), 3, stride,
                              HiddenDim(inp, expand_ratio), dropout, FALSE, is_mutable),
                    inp, HiddenDim(inp, expand_ratio), 4),
            oup, <<1, 1>>, <<1, 1>>, "SAME", 1)
  ELSE Conv(ConvBlock(t, HiddenDim(inp, expand_ratio), 3, stride, 1, dropout, FALSE,
                      is_mutable),
            oup, <<1, 1>>, <<1, 1>>, "SAME", 1)

(* MBConv.__call__: the add x + d of the identity branch, recorded with the *)
(* channel counts of its two operands.                                      *)
ResidualAdd(t, d) ==
  IF ~Ok(d) THEN d
  ELSE Elementwise([d EXCEPT !.adds = @ \cup {<<Channels(t), Channels(d)>>}], t, d)

(* MBConv.__call__ after b = bn(conv(x)): x + b or x + DropBlock(b) when    *)
(* identity, b otherwise.                                                   *)
MBConvReturn(t, b, stride, inp, oup, dropblock, is_mutable) ==
  IF ~Ok(t) THEN t
  ELSE IF stride \notin {1, 2} THEN Fail(t, "AssertionError", "", <<>>)
  ELSE IF ~Identity(stride, inp, oup) THEN b
  ELSE IF dropblock # 0 THEN ResidualAdd(t, DropBlock(b, dropblock, is_mutable))
  ELSE ResidualAdd(t, b)

(* MBConv.__call__. *)
MBConv(t, inp, oup, stride, expand_ratio, use_se, dropout, dropblock, is_mutable) ==
  MBConvReturn(t,
    BatchNorm(MBConvPath(t, inp, oup, stride, expand_ratio, use_se, dropout, is_mutable),
              "MBConv", UseRunningAverage(is_mutable)),
    stride, inp, oup, dropblock, is_mutable)

(* MlpBlock.__call__; out_dim is <<>> for None. *)
MlpBlock(t, mlp_dim, out_dim, dropout_rate, deterministic) ==
  Dropout(Dense(Dropout(Dense(t, mlp_dim), dropout_rate, deterministic),
                IF out_dim = <<>> THEN Channels(t) ELSE out_dim[1]),
          dropout_rate, deterministic)

(* AddPositionEmbs.__call__: the assertion, then inputs + pe.  The shape of *)
(* the parameter is PosEmbShape.                                            *)
PosEmbShape(shape) == <<1, shape[2], shape[3]>>

AddPositionEmbs(t) ==
  IF ~Ok(t) THEN t
  ELSE IF Len(t.shape) # 3
    THEN Fail(t, "AssertionError", "Number of dimensions should be 3, but it is: %d",
              <<Len(t.shape)>>)
  ELSE Elementwise(t, t, Tensor(PosEmbShape(t.shape), <<{}>>))

(* Dropout left on whatever the train flag says. *)
DeterministicNever(train_flag) == FALSE

(* deterministic=not train, as Encoder.__call__ passes it on. *)
Deterministic(train_flag) == ~train_flag

(* dropout and dropblock of the MBConv blocks of Encoder1DBlock: not given, *)
(* so the defaults of MBConv.                                               *)
MBConvDropout == 0
MBConvDropBlock == 0

(* a + b of two tensors of one chain, b the later one. *)
Add(a, b) == Elementwise(b, b, a)

(* Encoder1DBlock.__call__, the attention block: x = ...; x = x + inputs. *)
AttentionBlock(t, num_heads, dropout_rate, attention_dropout_rate, deterministic, hidden_size, is_mutable) ==
  Add(t,
    Dropout(
      Attention(
        LayerNorm(
          MBConv(MBConv(t, hidden_size, hidden_size, 1, 1, TRUE, MBConvDropout,
                        MBConvDropBlock, is_mutable),
                 hidden_size, hidden_size, 1, 1, TRUE, MBConvDropout, MBConvDropBlock,
                 is_mutable)),
        num_heads, attention_dropout_rate, deterministic),
      dropout_rate, deterministic))

(* Encoder1DBlock.__call__, the MLP block: y = ...; return x + y. *)
MlpBranch(xs, mlp_dim, dropout_rate, deterministic, is_mutable) ==
  Add(xs,
    MlpBlock(
      MBConv(MBConv(LayerNorm(xs), mlp_dim, mlp_dim, 1, 1, TRUE, MBConvDropout,
                    MBConvDropBlock, is_mutable),
             mlp_dim, mlp_dim, 1, 1, TRUE, MBConvDropout, MBConvDropBlock, is_mutable),
      mlp_dim, <<>>, dropout_rate, deterministic))

(* Encoder1DBlock.__call__. *)
Encoder1DBlock(t, mlp_dim, num_heads, dropout_rate, attention_dropout_rate, deterministic, hidden_size, is_mutable) ==
  IF ~Ok(t) THEN t
  ELSE IF Len(t.shape) # 3
    THEN Fail(t, "AssertionError", "Expected (batch, seq, hidden) got %shape", t.shape)
  ELSE MlpBranch(AttentionBlock(t, num_heads, dropout_rate, attention_dropout_rate,
                                deterministic, hidden_size, is_mutable),
                 mlp_dim, dropout_rate, deterministic, is_mutable)

-----------------------------------------------------------------------------
(* The ResNet root of VisionTransformer.__call__.  The stages come from     *)
(* vit_jax/models_resnet.py: a stage of bottleneck units returns nout * 4   *)
(* channels and divides the grid by its first stride.                       *)

ResNetStage(t, block_size, nout, first_stride) ==
  IF ~Ok(t) THEN t
  ELSE [t EXCEPT !.shape = <<@[1], CeilDiv(@[2], first_stride),
                             CeilDiv(@[3], first_stride), nout * 4>>]

RECURSIVE ResNetStages(_, _, _, _)
ResNetStages(t, num_layers, width, i) ==
  IF i > Len(num_layers) THEN t
  ELSE ResNetStages(ResNetStage(t, num_layers[i], width * 2^(i - 1),
                                IF i = 1 THEN 1 ELSE 2),
                    num_layers, width, i + 1)

(* nn.max_pool(x, window_shape=(3, 3), strides=(2, 2), padding='SAME'). *)
MaxPool(t) ==
  IF ~Ok(t) THEN t
  ELSE [t EXCEPT !.shape = <<@[1], ConvOut(@[2], 3, 2, "SAME"),
                             ConvOut(@[3], 3, 2, "SAME"), @[4]>>]

(* conv_root (7x7, stride 2), gn_root, relu, max_pool, then the stages. *)
ResNetRoot(t, resnet) ==
  ResNetStages(MaxPool(Conv(t, 64 * resnet.width_factor, <<7, 7>>, <<2, 2>>, "SAME", 1)),
               resnet.num_layers, 64 * resnet.width_factor, 1)

(* The shape the patch embedding receives. *)
StemShape(resnet, shape) ==
  IF resnet = <<>> THEN shape ELSE ResNetRoot(Tensor(shape, <<>>), resnet[1]).shape

-----------------------------------------------------------------------------
(* Labels of positions along axis 1. *)

Cls == [kind |-> "cls", idx |-> 0]
Patch(k) == [kind |-> "patch", idx |-> k]
Row(r) == [kind |-> "row", idx |-> r]

(* A class token for 'token' alone. *)
NeedsClsTokenOnlyToken(classifier) == classifier = "token"

(* The classifiers for which VisionTransformer.__call__ adds a class token. *)
NeedsClsToken(classifier) == classifier \in {"token", "token_unpooled"}

(* The classifiers the pooling accepts. *)
ValidClassifiers == {"token", "gap", "unpooled", "token_unpooled"}

(* What the caller receives: the result, and the key when masks were drawn  *)
(* from it (the values then depend on the key).                             *)
Output ==
  [status |-> pc, shape |-> x, err |-> err,
   random |-> IF draws > 0 THEN <<key>> ELSE <<>>]

NoOutput == [status |-> "none", shape |-> <<>>, err |-> NoError, random |-> <<>>]

IdentityDep(n) == [i \in 1..n |-> {i}]

(* The effects of a chain of layers r, started from Tensor(x, dep), become  *)
(* the state; an exception aborts the call.                                 *)
Commit(r, next) ==
  /\ err' = r.err
  /\ bn' = bn \cup r.bn
  /\ draws' = draws + r.draws
  /\ adds' = adds \cup r.adds
  /\ IF Ok(r)
       THEN /\ x' = r.shape
            /\ dep' = r.dep
            /\ pc' = next
       ELSE /\ x' = x
            /\ dep' = dep
            /\ pc' = "error"

-----------------------------------------------------------------------------
(* VisionTransformer.__call__, step by step.                                *)

Transformer == cfg.transformer[1]

(* The ResNet root, when one is configured. *)
Stem ==
  /\ pc = "stem"
  /\ IF cfg.resnet = <<>>
       THEN /\ Commit(Tensor(x, dep), "embedding")
            /\ log' = log
       ELSE /\ Commit(ResNetRoot(Tensor(x, dep), cfg.resnet[1]), "embedding")
            /\ log' = Append(log, <<"conv_root", 0>>)
  /\ UNCHANGED <<entry, cfg, train, mutable, key, inputs, lyr, axis1, posemb,
                 pooled, call, out1, ret>>

(* n, h, w, c = x.shape: the unpacking of a shape that has not four         *)
(* entries raises, with the message Python gives for fewer and for more.    *)
Unpack(t) ==
  IF Len(t.shape) < 4
    THEN Fail(t, "ValueError", "not enough values to unpack (expected 4, got %d)", <<Len(t.shape)>>)
    ELSE Fail(t, "ValueError", "too many values to unpack (expected 4)", <<>>)

(* n, h, w, c = x.shape, then the patch embedding: a convolution whose      *)
(* kernel and strides are patches.size, padding 'VALID'.  The convolution   *)
(* is built and evaluated only once the unpacking has succeeded.            *)
Embedding ==
  /\ pc = "embedding"
  /\ IF Len(x) # 4
       THEN /\ Commit(Unpack(Tensor(x, dep)), "error")
            /\ axis1' = axis1
            /\ log' = log
       ELSE /\ Commit(Conv(Tensor(x, dep), cfg.hidden_size, cfg.patches, cfg.patches, "VALID", 1),
                      IF cfg.transformer # <<>> THEN "sequence" ELSE "pool")
            /\ axis1' = [k \in 1..ConvOut(x[2], cfg.patches[1], cfg.patches[1], "VALID") |-> Row(k)]
            /\ log' = Append(log, <<"embedding", 0>>)
  /\ UNCHANGED <<entry, cfg, train, mutable, key, inputs, lyr, posemb, pooled,
                 call, out1, ret>>

(* The reshape to (n, h * w, c) and the class token. *)
ToSequence ==
  /\ pc = "sequence"
  /\ LET tokens == [k \in 1..(x[2] * x[3]) |-> Patch(k)]
     IN IF NeedsClsToken(cfg.classifier)
          THEN /\ x' = <<x[1], x[2] * x[3] + 1, x[4]>>
               /\ axis1' = <<Cls>> \o tokens
          ELSE /\ x' = <<x[1], x[2] * x[3], x[4]>>
               /\ axis1' = tokens
  /\ pc' = "encoder"
  /\ UNCHANGED <<entry, cfg, train, mutable, key, inputs, lyr, dep, err, log, bn,
                 draws, adds, posemb, pooled, call, out1, ret>>

(* Encoder.__call__ up to its loop: the rank assertion, the positional      *)
(* embedding and the input dropout.                                         *)
EncoderEnter ==
  /\ pc = "encoder"
  /\ LET t == Tensor(x, dep)
         r == IF Len(x) # 3 THEN Fail(t, "AssertionError", "", <<>>)
              ELSE IF Transformer.add_position_embedding
                THEN Dropout(AddPositionEmbs(t), Transformer.dropout_rate,
                             Deterministic(train))
              ELSE t
     IN /\ Commit(r, IF Transformer.num_layers > 0 THEN "block" ELSE "encoder_norm")
        /\ IF Ok(r) /\ Transformer.add_position_embedding
             THEN /\ posemb' = PosEmbShape(x)
                  /\ log' = Append(log, <<"posembed_input", 0>>)
             ELSE UNCHANGED <<posemb, log>>
  /\ lyr' = 0
  /\ UNCHANGED <<entry, cfg, train, mutable, key, inputs, axis1, pooled, call,
                 out1, ret>>

(* One Encoder1DBlock: an iteration of the loop of Encoder.__call__, or the *)
(* block called on its own.                                                 *)
EncoderBlock ==
  /\ pc = "block"
  /\ Commit(Encoder1DBlock(Tensor(x, dep), Transformer.mlp_dim, Transformer.num_heads,
                           Transformer.dropout_rate, Transformer.attention_dropout_rate,
                           Deterministic(train), cfg.hidden_size, mutable),
            IF entry = "Encoder1DBlock" THEN "done"
            ELSE IF lyr + 1 < Transformer.num_layers THEN "block"
            ELSE "encoder_norm")
  /\ log' = Append(log, <<"encoderblock", lyr>>)
  /\ lyr' = lyr + 1
  /\ UNCHANGED <<entry, cfg, train, mutable, key, inputs, axis1, posemb, pooled,
                 call, out1, ret>>

(* encoder_norm, the end of Encoder.__call__. *)
EncoderNorm ==
  /\ pc = "encoder_norm"
  /\ Commit(LayerNorm(Tensor(x, dep)), IF entry = "Encoder" THEN "done" ELSE "pool")
  /\ log' = Append(log, <<"encoder_norm", 0>>)
  /\ UNCHANGED <<entry, cfg, train, mutable, key, inputs, lyr, axis1, posemb,
                 pooled, call, out1, ret>>

(* The pooling chosen by the classifier string. *)
Pool ==
  /\ pc = "pool"
  /\ LET t == Tensor(x, dep)
     IN IF cfg.classifier = "token"
          THEN /\ Commit(IF x[2] = 0
                         THEN Fail(t, "IndexError", "index 0 is out of bounds", x)
                         ELSE [t EXCEPT !.shape = RemoveAt(x, 2)], "pre_logits")
               /\ pooled' = IF x[2] = 0 THEN pooled ELSE <<axis1[1]>>
        ELSE IF cfg.classifier = "gap"
          THEN /\ Commit([t EXCEPT !.shape = <<x[1], Last(x)>>], "pre_logits")
               /\ pooled' = axis1
        ELSE IF cfg.classifier \in {"unpooled", "token_unpooled"}
          THEN /\ Commit(t, "pre_logits")
               /\ pooled' = axis1
        ELSE /\ Commit(Fail(t, "ValueError", "Invalid classifier=%s", <<cfg.classifier>>),
                       "pre_logits")
             /\ pooled' = pooled
  /\ UNCHANGED <<entry, cfg, train, mutable, key, inputs, lyr, axis1, log, posemb,
                 call, out1, ret>>

(* pre_logits: a Dense and tanh when representation_size is given. *)
PreLogits ==
  /\ pc = "pre_logits"
  /\ Commit(IF cfg.representation_size # <<>>
            THEN Dense(Tensor(x, dep), cfg.representation_size[1])
            ELSE Tensor(x, dep), "head")
  /\ log' = Append(log, <<"pre_logits", 0>>)
  /\ UNCHANGED <<entry, cfg, train, mutable, key, inputs, lyr, axis1, posemb,
                 pooled, call, out1, ret>>

(* The head, when num_classes is not 0, and the return. *)
ClassifierHead ==
  /\ pc = "head"
  /\ IF cfg.num_classes # 0
       THEN /\ Commit(Dense(Tensor(x, dep), cfg.num_classes), "done")
            /\ log' = Append(log, <<"head", 0>>)
       ELSE /\ Commit(Tensor(x, dep), "done")
            /\ log' = log
  /\ UNCHANGED <<entry, cfg, train, mutable, key, inputs, lyr, axis1, posemb,
                 pooled, call, out1, ret>>

(* The caller calls the same module again with the same parameters,         *)
(* statistics and input, and a PRNG key of its choice.                      *)
Keys == {1, 2}

CallAgain ==
  /\ entry = "VisionTransformer"
  /\ pc \in {"done", "error"}
  /\ call = 1
  /\ call' = 2
  /\ out1' = Output
  /\ key' \in Keys
  /\ pc' = "stem"
  /\ lyr' = 0
  /\ x' = inputs
  /\ axis1' = <<>>
  /\ dep' = IdentityDep(inputs[1])
  /\ err' = NoError
  /\ log' = <<>>
  /\ bn' = {}
  /\ draws' = 0
  /\ adds' = {}
  /\ posemb' = <<>>
  /\ pooled' = <<>>
  /\ UNCHANGED <<entry, cfg, train, mutable, inputs, ret>>

-----------------------------------------------------------------------------
(* The modules called on their own, and the plain functions.                *)

(* AddPositionEmbs.__call__ called directly. *)
CallAddPositionEmbs ==
  /\ entry = "AddPositionEmbs"
  /\ pc = "posemb"
  /\ LET r == AddPositionEmbs(Tensor(x, dep))
     IN /\ Commit(r, "done")
        /\ posemb' = IF Ok(r) THEN PosEmbShape(x) ELSE posemb
  /\ log' = Append(log, <<"posembed_input", 0>>)
  /\ UNCHANGED <<entry, cfg, train, mutable, key, inputs, lyr, axis1, pooled,
                 call, out1, ret>>

(* ConvBlock.__call__ called directly, with the attributes in cfg. *)
CallConvBlock ==
  /\ entry = "ConvBlock"
  /\ pc = "call"
  /\ Commit(ConvBlock(Tensor(x, dep), cfg.oup, cfg.kernel, cfg.stride, cfg.groups,
                      cfg.dropout, cfg.has_skip, mutable),
            "done")
  /\ UNCHANGED <<entry, cfg, train, mutable, key, inputs, lyr, axis1, log, posemb,
                 pooled, call, out1, ret>>

(* _make_divisible(v, divisor) called with min_value omitted. *)
CallMakeDivisible ==
  /\ entry = "_make_divisible"
  /\ pc = "call"
  /\ ret' = <<_make_divisible(inputs[1], inputs[2], <<>>)>>
  /\ pc' = "done"
  /\ UNCHANGED <<entry, cfg, train, mutable, key, inputs, lyr, x, axis1, dep, err,
                 log, bn, draws, adds, posemb, pooled, call, out1>>

(* SELayer.__call__ with inp = inputs[1] and the default reduction: the     *)
(* features of its reduction convolution.                                   *)
CallSELayer ==
  /\ entry = "SELayer"
  /\ pc = "call"
  /\ ret' = <<SEFeatures(inputs[1], 4)>>
  /\ pc' = "done"
  /\ UNCHANGED <<entry, cfg, train, mutable, key, inputs, lyr, x, axis1, dep, err,
                 log, bn, draws, adds, posemb, pooled, call, out1>>

-----------------------------------------------------------------------------
(* Configurations and inputs.                                               *)

Classifiers == ValidClassifiers \cup {"max"}

PatchSizes == {<<1, 1>>, <<2, 2>>, <<2, 1>>}

(* dropout rates, in percent: 0.0 and the default 0.1 *)
Rates == {0, 10}

HeadCounts == {1, 2}

ResNets ==
  {<<>>, <<[num_layers |-> <<>>, width_factor |-> 1]>>,
   <<[num_layers |-> <<1>>, width_factor |-> 1]>>}

(* A raw side that the stem reduces to side s. *)
RawSide(resnet, s) == IF resnet = <<>> THEN s ELSE 4 * s

TransformerConfig(layers, mlp, heads, rate, arate, addpos) ==
  [num_layers |-> layers, mlp_dim |-> mlp, num_heads |-> heads,
   dropout_rate |-> rate, attention_dropout_rate |-> arate,
   add_position_embedding |-> addpos]

Config(nc, p, tr, hidden, resnet, rep, classifier) ==
  [num_classes |-> nc, patches |-> p, transformer |-> tr, hidden_size |-> hidden,
   resnet |-> resnet, representation_size |-> rep, classifier |-> classifier]

(* The state at the start of a call of `e` with configuration c on `shape`. *)
Start(e, c, shape, tr, mu, k, at) ==
  /\ entry = e
  /\ cfg = c
  /\ train = tr
  /\ mutable = mu
  /\ key = k
  /\ inputs = shape
  /\ pc = at
  /\ lyr = 0
  /\ x = shape
  /\ axis1 = <<>>
  /\ dep = IdentityDep(shape[1])
  /\ err = NoError
  /\ log = <<>>
  /\ bn = {}
  /\ draws = 0
  /\ adds = {}
  /\ posemb = <<>>
  /\ pooled = <<>>
  /\ call = 1
  /\ out1 = NoOutput
  /\ ret = <<>>

Shapes(rank) == [1..rank -> 1..2]

(* Images and patch grids: every batch size, grid, patch size, stem,        *)
(* classifier and head, with no transformer or a one-layer one.  Every side *)
(* holds at least one patch.                                                *)
InitGrids ==
  \E n \in 1..MaxBatch, hs \in 1..MaxSide, ws \in 1..MaxSide, p \in PatchSizes,
     resnet \in ResNets, classifier \in Classifiers, nc \in {0, 2},
     rep \in {<<>>, <<3>>},
     tr \in {<<>>, <<TransformerConfig(1, 2, 1, 10, 10, TRUE)>>} :
    /\ p[1] <= hs /\ p[2] <= ws
    /\ Start("VisionTransformer", Config(nc, p, tr, 2, resnet, rep, classifier),
             <<n, RawSide(resnet, hs), RawSide(resnet, ws), 3>>, FALSE, FALSE, 1, "stem")

(* Encoders: every depth, width, rate and mode, on a fixed 2 x 1 grid.      *)
InitEncoders ==
  \E n \in 1..MaxBatch, layers \in 1..MaxLayers, mlp \in 1..MaxDim,
     hidden \in 1..MaxDim, heads \in HeadCounts, rate \in Rates, arate \in Rates,
     addpos \in BOOLEAN, classifier \in {"token", "gap"}, tr \in BOOLEAN,
     mu \in BOOLEAN :
    Start("VisionTransformer",
          Config(2, <<1, 1>>, <<TransformerConfig(layers, mlp, heads, rate, arate, addpos)>>,
                 hidden, <<>>, <<>>, classifier),
          <<n, 2, 1, 3>>, tr, mu, 1, "stem")

(* Inputs that are not images: every rank but four, without a stem.         *)
InitRanks ==
  \E rank \in (1..(MaxRank + 1)) \ {4}, classifier \in {"token", "gap"},
     tr \in {<<>>, <<TransformerConfig(1, 2, 1, 10, 10, TRUE)>>} :
    \E shape \in Shapes(rank) :
      Start("VisionTransformer", Config(2, <<1, 1>>, tr, 2, <<>>, <<>>, classifier),
            shape, FALSE, FALSE, 1, "stem")

Init == InitGrids \/ InitEncoders \/ InitRanks

Next ==
  \/ Stem
  \/ Embedding
  \/ ToSequence
  \/ EncoderEnter
  \/ EncoderBlock
  \/ EncoderNorm
  \/ Pool
  \/ PreLogits
  \/ ClassifierHead
  \/ CallAgain

Spec == Init /\ [][Next]_vars

-----------------------------------------------------------------------------
(* The encoder modules called on their own, on inputs of every rank.        *)

StartPc(e) ==
  CASE e = "Encoder" -> "encoder"
    [] e = "AddPositionEmbs" -> "posemb"
    [] e = "Encoder1DBlock" -> "block"
    [] e = "VisionTransformer" -> "stem"
    [] OTHER -> "call"

(* ConvBlock on images and on unbatched samples, with and without the skip. *)
InitConvBlocks ==
  \E rank \in 3..MaxRank, oup \in 1..MaxDim, kernel \in {1, 3}, stride \in {1, 2},
     has_skip \in BOOLEAN, mu \in BOOLEAN :
    \E shape \in Shapes(rank) :
      Start("ConvBlock",
            [oup |-> oup, kernel |-> kernel, stride |-> stride, groups |-> 1,
             dropout |-> 0, has_skip |-> has_skip],
            shape, FALSE, mu, 1, StartPc("ConvBlock"))

InitEncoderModules ==
  \E e \in {"Encoder", "AddPositionEmbs", "Encoder1DBlock"}, rank \in 1..MaxRank,
     hidden \in 1..2, addpos \in BOOLEAN :
    \E shape \in Shapes(rank) :
      Start(e, Config(0, <<1, 1>>, <<TransformerConfig(1, 2, 1, 10, 10, addpos)>>,
                      hidden, <<>>, <<>>, "token"),
            shape, FALSE, FALSE, 1, StartPc(e))

InitModules == InitEncoderModules \/ InitConvBlocks

NextModules ==
  \/ CallConvBlock
  \/ EncoderEnter
  \/ EncoderBlock
  \/ EncoderNorm
  \/ CallAddPositionEmbs

SpecModules == InitModules /\ [][NextModules]_vars

-----------------------------------------------------------------------------
(* The plain functions, on every argument within the bounds.                *)

StartFunction(e, args) ==
  /\ entry = e
  /\ cfg = <<>>
  /\ train = FALSE
  /\ mutable = FALSE
  /\ key = 1
  /\ inputs = args
  /\ pc = StartPc(e)
  /\ lyr = 0
  /\ x = <<>>
  /\ axis1 = <<>>
  /\ dep = <<>>
  /\ err = NoError
  /\ log = <<>>
  /\ bn = {}
  /\ draws = 0
  /\ adds = {}
  /\ posemb = <<>>
  /\ pooled = <<>>
  /\ call = 1
  /\ out1 = NoOutput
  /\ ret = <<>>

InitDivisible ==
  \/ \E v \in 0..MaxV, divisor \in 1..MaxDivisor :
       StartFunction("_make_divisible", <<v, divisor>>)
  \/ \E inp \in 0..(4 * MaxV) : StartFunction("SELayer", <<inp>>)

NextDivisible ==
  \/ CallMakeDivisible
  \/ CallSELayer

SpecDivisible == InitDivisible /\ [][NextDivisible]_vars

-----------------------------------------------------------------------------
(* Properties.                                                              *)

IsVT == entry = "VisionTransformer"

Finished == pc \in {"done", "error"}

Evaluated(name) == \E k \in 1..Len(log) : log[k][1] = name

(* The grid of the patch embedding: one patch per full window. *)
GridH == ConvOut(StemShape(cfg.resnet, inputs)[2], cfg.patches[1], cfg.patches[1], "VALID")
GridW == ConvOut(StemShape(cfg.resnet, inputs)[3], cfg.patches[2], cfg.patches[2], "VALID")

(* C1: whenever VisionTransformer.__call__ returns with num_classes > 0 and *)
(* classifier 'token' or 'gap', the output has shape (batch, num_classes).  *)
C1_OutputShape ==
  (IsVT /\ pc = "done" /\ cfg.num_classes > 0 /\ cfg.classifier \in {"token", "gap"})
    => x = <<inputs[1], cfg.num_classes>>

(* C2: when the invalid-classifier error is raised, no stem convolution,    *)
(* patch embedding or encoder layer has been evaluated.                     *)
C2_InvalidClassifierRaisedFirst ==
  (IsVT /\ err.msg = "Invalid classifier=%s") => log = <<>>

(* C3: a call on an input whose height or width after the stem is not a     *)
(* multiple of the patch size does not return an output.                    *)
C3_IndivisibleInputFails ==
  (IsVT /\ pc = "done")
    => /\ StemShape(cfg.resnet, inputs)[2] % cfg.patches[1] = 0
       /\ StemShape(cfg.resnet, inputs)[3] % cfg.patches[2] = 0

(* C4: with train = False no dropout draws a random number, whatever the    *)
(* mutability of batch_stats, and a repeated call with the same input and   *)
(* any PRNG key returns what the first call returned.                       *)
C4_EvalDeterministic ==
  (IsVT /\ ~train)
    => /\ draws = 0
       /\ (call = 2 /\ Finished) => Output = out1

C4_Witness ==
  /\ IsVT /\ ~train /\ mutable /\ call = 2 /\ pc = "done" /\ key # 1
  /\ Transformer.dropout_rate > 0 /\ Transformer.attention_dropout_rate > 0
  /\ Transformer.add_position_embedding
  /\ Evaluated("encoderblock")

(* C5: a module that requires a rank-3 input aborts on any other rank with  *)
(* an assertion error whose message names the shape of the input.           *)
C5_RankErrorNamesShape ==
  (entry \in {"Encoder", "AddPositionEmbs", "Encoder1DBlock"}
     /\ Len(inputs) # 3 /\ pc # StartPc(entry))
    => /\ pc = "error"
       /\ err.kind = "AssertionError"
       /\ err.msg = "Expected (batch, seq, hidden) got %shape"
       /\ err.arg = inputs

(* C6: every batch normalization of a call reads the running statistics and *)
(* leaves them alone when batch_stats is not mutable, and uses and writes   *)
(* batch statistics when it is, whatever the train flag.                    *)
C6_BatchNormFollowsMutable ==
  IsVT => \A b \in bn : b[2] = ~mutable /\ b[3] = mutable

C6_Witness ==
  /\ IsVT /\ pc = "done" /\ mutable /\ ~train
  /\ \E b \in bn : b[1] = "ConvBlock"
  /\ \E b \in bn : b[1] = "MBConv"

(* C7: every residual add of an MBConv is between tensors of the same       *)
(* channel count.                                                           *)
C7_ResidualAddSameChannels ==
  \A a \in adds : a[1] = a[2]

(* C8: with a transformer, 'token' and 'token_unpooled' put exactly one     *)
(* class token at position 0, so the encoder sees grid_h * grid_w + 1       *)
(* tokens and the positional embedding has one entry per token; 'gap' and   *)
(* 'unpooled' add none.  'token' hands position 0 to the head; the unpooled *)
(* classifiers keep every position.                                         *)
C8_ClassToken ==
  (IsVT /\ cfg.transformer # <<>>
     /\ pc \in {"encoder", "block", "encoder_norm", "pool", "pre_logits", "head", "done"})
    => /\ cfg.classifier \in {"token", "token_unpooled"}
            => /\ Len(axis1) = GridH * GridW + 1
               /\ axis1[1] = Cls
               /\ \A k \in 2..Len(axis1) : axis1[k] = Patch(k - 1)
       /\ cfg.classifier \in {"gap", "unpooled"}
            => /\ Len(axis1) = GridH * GridW
               /\ \A k \in 1..Len(axis1) : axis1[k] = Patch(k)
       /\ posemb # <<>> => posemb[1] = 1 /\ posemb[2] = Len(axis1)
       /\ pc \in {"encoder", "block", "encoder_norm", "pool"} => x[2] = Len(axis1)
       /\ (pc \in {"pre_logits", "head", "done"} /\ cfg.classifier = "token")
            => pooled = <<Cls>> /\ Len(x) = 2
       /\ (pc \in {"pre_logits", "head", "done"}
             /\ cfg.classifier \in {"unpooled", "token_unpooled"})
            => pooled = axis1 /\ Len(x) = 3 /\ x[2] = Len(axis1)

C8_Witness ==
  /\ IsVT /\ cfg.transformer # <<>> /\ pc = "done"
  /\ cfg.classifier = "token_unpooled"
  /\ GridH * GridW > 1
  /\ posemb # <<>>
  /\ pooled[1] = Cls /\ Len(pooled) = GridH * GridW + 1

(* C9: _make_divisible(v, divisor) is a multiple of divisor, at least       *)
(* divisor and at least 0.9 * v; the features of the reduction convolution  *)
(* of SELayer are a multiple of 4, at least 4 and at least 0.9 * (inp // 4).*)
C9_MakeDivisible ==
  /\ (entry = "_make_divisible" /\ pc = "done")
       => /\ ret[1] % inputs[2] = 0
          /\ ret[1] >= inputs[2]
          /\ 10 * ret[1] >= 9 * inputs[1]
  /\ (entry = "SELayer" /\ pc = "done")
       => /\ ret[1] % 4 = 0
          /\ ret[1] >= 4
          /\ 10 * ret[1] >= 9 * (inputs[1] \div 4)

C9_Witness ==
  /\ entry = "_make_divisible" /\ pc = "done"
  /\ inputs = <<5, 4>>
  /\ ret = <<8>>

(* C10: in evaluation mode the values at batch index i are computed from    *)
(* input batch element i alone.                                             *)
C10_BatchIndependent ==
  (IsVT /\ ~train /\ ~mutable) => \A i \in DOMAIN dep : dep[i] = {i}

====
